---------------------------- MODULE Spec2Model ----------------------------
(***************************************************************************)
(* TourHero fly-rate dashboard (src/dashboard.py).                         *)
(*                                                                         *)
(* The dashboard is a script that is run top to bottom once per user       *)
(* interaction (one "render pass").  The loaded table df_original is fixed *)
(* for the session; the sidebar widgets keep their values between passes;  *)
(* everything else is recomputed by every pass.                            *)
(*                                                                         *)
(* A data frame is a function from index labels to rows: boolean-mask      *)
(* selection keeps the labels of the rows it keeps.  A column added to     *)
(* df_cleaned (trip_success, follower_level, cohort) is a function from    *)
(* the labels of df_cleaned to the column's values.                        *)
(*                                                                         *)
(* Numbers.  A rate x / y * 100 is kept as the pair <<x, y>> and compared  *)
(* with a percentage by cross-multiplication; the IEEE double computation  *)
(* of the code agrees with that for every y < 50 (the first difference is  *)
(* 29 / 50 * 100 = 57.99999999999999 < 58).  The median is kept doubled    *)
(* (pandas averages the two middle values of an even-sized column).        *)
(***************************************************************************)
EXTENDS Integers, Sequences, FiniteSets

VARIABLES
    df_original,              \* the loaded table, rows labelled 1..n
    shell_filter,             \* sidebar radio
    selected_markets,         \* sidebar multiselect
    selected_date_range,      \* sidebar date input: <<start, end>> or <<start>>
    selected_follower_range,  \* sidebar slider: <<lo, hi>>
    target_fly_rate,          \* threshold slider
    pc,                       \* position of the render pass in the script
    df_filtered,              \* frame after the user filters
    df_cleaned,               \* frame after the final cleaning
    trip_success,             \* column df_cleaned['trip_success']
    warning,                  \* the st.warning of the empty selection
    kpi,                      \* total_trips, successful_trips, median_followers
    fly_rate_by_market,       \* market -> <<successes, trips>>
    df_threshold_calc,        \* df_cleaned sorted, with the running columns
    threshold,                \* what the threshold calculator displays
    cohort                    \* columns follower_level and cohort

vars == << df_original, shell_filter, selected_markets, selected_date_range,
           selected_follower_range, target_fly_rate, pc, df_filtered,
           df_cleaned, trip_success, warning, kpi, fly_rate_by_market,
           df_threshold_calc, threshold, cohort >>

widgets == << shell_filter, selected_markets, selected_date_range,
              selected_follower_range, target_fly_rate >>

results == << df_filtered, df_cleaned, trip_success, warning, kpi,
              fly_rate_by_market, df_threshold_calc, threshold, cohort >>

-----------------------------------------------------------------------------
(* Bounds of the model and the input domains.                              *)

\* Most rows of a loaded table in the filter specification.
MaxRows == 2

\* Most rows of a loaded table in the threshold specification.
MaxTrips == 4

ShellValues == {TRUE}
MarketValues == {"asia", "mba"}
DateValues == {1, 2}
FollowerValues == {1, 2}
StatusValues == {"done", "cancelled", "draft"}

\* Rows of the filter specification: every column varies.
TripRecords ==
    [shell : ShellValues, market : MarketValues, published_date : DateValues,
     follower_count : FollowerValues, fixed_active_status : StatusValues]

\* Rows of the threshold specification: only the follower count and the
\* outcome vary, over the follower counts of the spec's worked example.
RankedFollowerValues == {60, 70, 80, 90}
RankedRecords ==
    [shell : {FALSE}, market : {"asia"}, published_date : {1},
     follower_count : RankedFollowerValues,
     fixed_active_status : {"done", "cancelled"}]

\* Positions of the threshold slider that the model tries.  The rate of a
\* prefix of at most 5 rows is one of 0, 20, 25, 33.3, 40, 50, 60, 66.7, 75,
\* 80, 100: every target of 1..100 selects the same prefixes as one of these.
Targets == {20, 25, 33, 40, 50, 60, 66, 70, 80, 100}

Tables(records, n) == UNION { [1..k -> records] : k \in 1..n }

\* Tables with their rows listed by ascending follower count and, within a
\* follower count, by date.  The script reads the order of the rows of the
\* table nowhere but in the sort, where it can only decide the order of equal
\* follower counts, and the sort is modelled with every such order: a table
\* and its reorderings behave alike.
ListedTables(records, n) ==
    { t \in Tables(records, n) :
        \A k \in 1..(Len(t) - 1) :
            \/ t[k].follower_count < t[k + 1].follower_count
            \/ /\ t[k].follower_count = t[k + 1].follower_count
               /\ t[k].published_date <= t[k + 1].published_date }

-----------------------------------------------------------------------------
(* Helpers on frames and numbers.                                          *)

Restrict(df, rows) == [i \in rows |-> df[i]]

Column(df, col) == { df[i][col] : i \in DOMAIN df }

SetMin(S) == CHOOSE x \in S : \A y \in S : x <= y
SetMax(S) == CHOOSE x \in S : \A y \in S : x >= y

\* rate a = <<x, y>> stands for x / y * 100
RateGeq(a, t) == a[1] * 100 >= t * a[2]
RateLeq(a, b) == a[1] * b[2] <= b[1] * a[2]

NotComputed == [kind |-> "none"]

-----------------------------------------------------------------------------
(* Sidebar defaults (lines 77-85).                                         *)

markets(df) == Column(df, "market")
min_date(df) == SetMin(Column(df, "published_date"))
max_date(df) == SetMax(Column(df, "published_date"))
min_followers(df) == SetMin(Column(df, "follower_count"))
max_followers(df) == SetMax(Column(df, "follower_count"))

ShellFilterOptions == {"All Trips", "Only Shell Trips", "Only Non-Shell Trips"}

\* The date input yields one date while the user is picking the second; the
\* script reads only the length of such a value, so one of them stands for all.
DateRangeOptions(df) ==
    { r \in (min_date(df)..max_date(df)) \X (min_date(df)..max_date(df)) :
        r[1] <= r[2] }
        \cup { << min_date(df) >> }

FollowerRangeOptions(df) ==
    { r \in (min_followers(df)..max_followers(df)) \X (min_followers(df)..max_followers(df)) :
        r[1] <= r[2] }

-----------------------------------------------------------------------------
(* Apply All Filters to the Data (lines 88-98).                            *)

ShellMask(df, choice) ==
    IF choice = "Only Shell Trips"
    THEN Restrict(df, { i \in DOMAIN df : df[i].shell = TRUE })
    ELSE IF choice = "Only Non-Shell Trips"
         THEN Restrict(df, { i \in DOMAIN df : df[i].shell = FALSE })
         ELSE df

\* the selection applied even when it is empty
MarketMaskAlways(df, selected) ==
    Restrict(df, { i \in DOMAIN df : df[i].market \in selected })

MarketMask(df, selected) ==
    IF selected # {}
    THEN Restrict(df, { i \in DOMAIN df : df[i].market \in selected })
    ELSE df

DateMask(df, range) ==
    IF Len(range) = 2
    THEN Restrict(df, { i \in DOMAIN df : /\ df[i].published_date >= range[1]
                                          /\ df[i].published_date <= range[2] })
    ELSE df

FollowerMask(df, range) ==
    Restrict(df, { i \in DOMAIN df : /\ df[i].follower_count >= range[1]
                                     /\ df[i].follower_count <= range[2] })

ApplyAllFilters(df, choice, selected, dates, followers) ==
    FollowerMask(DateMask(MarketMask(ShellMask(df, choice), selected), dates),
                 followers)

-----------------------------------------------------------------------------
(* Final Data Cleaning (lines 100-109).                                    *)

allowed_statuses == {"cancelled", "done", "live", "confirmed"}

\* the sentinel market left in
DropMbaSkipped(df) == df

DropMba(df) == Restrict(df, { i \in DOMAIN df : df[i].market # "mba" })

\* other statuses coerced to a default, as the loader does with bad values,
\* instead of dropped
KeepAllowedStatusesCoerced(df) ==
    [ i \in DOMAIN df |->
        IF df[i].fixed_active_status \in allowed_statuses THEN df[i]
        ELSE [df[i] EXCEPT !.fixed_active_status = "cancelled"] ]

KeepAllowedStatuses(df) ==
    Restrict(df, { i \in DOMAIN df : df[i].fixed_active_status \in allowed_statuses })

FinalDataCleaning(df) == KeepAllowedStatuses(DropMba(df))

map_success(status) ==
    IF status \in {"done", "live", "confirmed"} THEN "Successful" ELSE "Cancelled"

-----------------------------------------------------------------------------
(* KPIs and the market chart (lines 116-119, 138).                         *)

Successes(outcome, rows) ==
    Cardinality({ i \in rows : outcome[i] = "Successful" })

\* the values of follower_count in ascending order, duplicates kept
RECURSIVE Ascending(_, _)
Ascending(df, rows) ==
    IF rows = {} THEN << >>
    ELSE LET i == CHOOSE i \in rows :
                    \A j \in rows : df[i].follower_count <= df[j].follower_count
         IN  <<df[i].follower_count>> \o Ascending(df, rows \ {i})

\* twice the median of an ascending sequence: pandas averages the two middle
\* values of an even-sized column
MiddleOf(s) ==
    LET n == Len(s)
    IN  IF n % 2 = 1 THEN 2 * s[(n + 1) \div 2]
        ELSE s[n \div 2] + s[n \div 2 + 1]

\* the median of the loaded table instead of the current selection
median2_of_loaded_table(df) == MiddleOf(Ascending(df_original, DOMAIN df_original))

\* twice df['follower_count'].median()
median2(df) == MiddleOf(Ascending(df, DOMAIN df))

Metrics(df, outcome) ==
    [kind |-> "kpi",
     total_trips |-> Cardinality(DOMAIN df),
     successful_trips |-> Successes(outcome, DOMAIN df),
     median_followers2 |-> median2(df)]

FlyRateByMarket(df, outcome) ==
    [ m \in markets(df) |->
        LET rows == { i \in DOMAIN df : df[i].market = m }
        IN  << Successes(outcome, rows), Cardinality(rows) >> ]

-----------------------------------------------------------------------------
(* Threshold calculator (lines 177-206).                                   *)

\* sort_values('follower_count', ascending=False): the order of rows with
\* equal follower counts is left to the sort, so every such order is possible.
\* The orders of rows: a row with the largest follower count, then an order
\* of the others.
RECURSIVE DescendingOrders(_, _)
DescendingOrders(df, rows) ==
    IF rows = {} THEN { << >> }
    ELSE UNION { { <<i>> \o rest : rest \in DescendingOrders(df, rows \ {i}) } :
                 i \in { i \in rows : \A j \in rows :
                           df[i].follower_count >= df[j].follower_count } }

SortedOrders(df) == DescendingOrders(df, DOMAIN df)

is_successful(outcome) == IF outcome = "Successful" THEN 1 ELSE 0

RECURSIVE cumsum(_, _, _)
cumsum(order, outcome, k) ==
    IF k = 0 THEN 0
    ELSE cumsum(order, outcome, k - 1) + is_successful(outcome[order[k]])

RunningColumns(df, outcome, order) ==
    [ k \in 1..Len(order) |->
        [index |-> order[k],
         follower_count |-> df[order[k]].follower_count,
         is_successful |-> is_successful(outcome[order[k]]),
         cumulative_successes |-> cumsum(order, outcome, k),
         cumulative_trips |-> k] ]

fly_rate_at_or_above(row) == << row.cumulative_successes, row.cumulative_trips >>

\* rate > target instead of rate >= target
MeetsTargetStrictly(row, target) ==
    fly_rate_at_or_above(row)[1] * 100 > target * fly_rate_at_or_above(row)[2]

\* rate <= target instead of rate >= target
MeetsTargetBelow(row, target) ==
    fly_rate_at_or_above(row)[1] * 100 <= target * fly_rate_at_or_above(row)[2]

MeetsTarget(row, target) == RateGeq(fly_rate_at_or_above(row), target)

\* the rows down to the first one below the target: the walk stops there
RECURSIVE result_df_until_first_drop(_, _)
result_df_until_first_drop(calc, target) ==
    IF calc = << >> THEN << >>
    ELSE IF RateGeq(fly_rate_at_or_above(Head(calc)), target)
         THEN <<Head(calc)>> \o result_df_until_first_drop(Tail(calc), target)
         ELSE << >>

RECURSIVE result_df(_, _)
result_df(calc, target) ==
    IF calc = << >> THEN << >>
    ELSE IF MeetsTarget(Head(calc), target)
         THEN <<Head(calc)>> \o result_df(Tail(calc), target)
         ELSE result_df(Tail(calc), target)

\* iloc[0] instead of iloc[-1]
suggested_threshold_first(result) == result[1].follower_count

\* result_df['follower_count'].iloc[-1]
suggested_threshold(result) == result[Len(result)].follower_count

\* the largest rate of the column, as the rate of the first row that has it
max_possible_rate(calc) ==
    LET k == CHOOSE k \in 1..Len(calc) :
                /\ \A j \in 1..Len(calc) :
                     RateLeq(fly_rate_at_or_above(calc[j]), fly_rate_at_or_above(calc[k]))
                /\ \A j \in 1..(k - 1) :
                     ~RateLeq(fly_rate_at_or_above(calc[k]), fly_rate_at_or_above(calc[j]))
    IN  fly_rate_at_or_above(calc[k])

ThresholdDisplay(calc, target) ==
    LET result == result_df(calc, target)
    IN  IF result # << >>
        THEN [kind |-> "metric", suggested_threshold |-> suggested_threshold(result)]
        ELSE [kind |-> "warning", max_possible_rate |-> max_possible_rate(calc)]

-----------------------------------------------------------------------------
(* Cohorts (lines 219-221).                                                *)

follower_level(x, median_followers2) ==
    IF 2 * x >= median_followers2 THEN "High Followers" ELSE "Low Followers"

\* the cohort string "<level> | <outcome>" is kept as the pair it joins
CohortColumns(df, outcome, median_followers2) ==
    [ i \in DOMAIN df |->
        [follower_level |-> follower_level(df[i].follower_count, median_followers2),
         cohort |-> << follower_level(df[i].follower_count, median_followers2),
                       outcome[i] >>] ]

-----------------------------------------------------------------------------
(* The render pass.                                                        *)

NoFrame == << >>

FreshPass ==
    /\ pc' = "filter"
    /\ df_filtered' = NoFrame
    /\ df_cleaned' = NoFrame
    /\ trip_success' = NoFrame
    /\ warning' = "none"
    /\ kpi' = NotComputed
    /\ fly_rate_by_market' = NoFrame
    /\ df_threshold_calc' = NoFrame
    /\ threshold' = NotComputed
    /\ cohort' = NoFrame

InitWith(tables) ==
    /\ df_original \in tables
    /\ shell_filter = "All Trips"
    /\ selected_markets = markets(df_original)
    /\ selected_date_range = << min_date(df_original), max_date(df_original) >>
    /\ selected_follower_range = << min_followers(df_original), max_followers(df_original) >>
    /\ target_fly_rate = 25
    /\ pc = "filter"
    /\ df_filtered = NoFrame
    /\ df_cleaned = NoFrame
    /\ trip_success = NoFrame
    /\ warning = "none"
    /\ kpi = NotComputed
    /\ fly_rate_by_market = NoFrame
    /\ df_threshold_calc = NoFrame
    /\ threshold = NotComputed
    /\ cohort = NoFrame

Init == InitWith(ListedTables(TripRecords, MaxRows))

InitThreshold == InitWith(ListedTables(RankedRecords, MaxTrips))

\* lines 88-98
ApplyFilters ==
    /\ pc = "filter"
    /\ df_filtered' = ApplyAllFilters(df_original, shell_filter, selected_markets,
                                      selected_date_range, selected_follower_range)
    /\ pc' = "clean"
    /\ UNCHANGED << df_original, widgets, df_cleaned, trip_success, warning, kpi,
                    fly_rate_by_market, df_threshold_calc, threshold, cohort >>

\* the warning without the st.stop()
EmptyResultKeepsRunning ==
    /\ pc = "clean"
    /\ DOMAIN FinalDataCleaning(df_filtered) = {}
    /\ df_cleaned' = FinalDataCleaning(df_filtered)
    /\ warning' = "EmptyResult"
    /\ trip_success' = << >>
    /\ pc' = "metrics"
    /\ UNCHANGED << df_original, widgets, df_filtered, kpi,
                    fly_rate_by_market, df_threshold_calc, threshold, cohort >>

\* lines 100-108, the selection is empty: warn and stop the pass
EmptyResult ==
    /\ pc = "clean"
    /\ DOMAIN FinalDataCleaning(df_filtered) = {}
    /\ df_cleaned' = FinalDataCleaning(df_filtered)
    /\ warning' = "EmptyResult"
    /\ pc' = "stopped"
    /\ UNCHANGED << df_original, widgets, df_filtered, trip_success, kpi,
                    fly_rate_by_market, df_threshold_calc, threshold, cohort >>

\* lines 100-109, the selection is not empty
FinalCleaning ==
    /\ pc = "clean"
    /\ DOMAIN FinalDataCleaning(df_filtered) # {}
    /\ df_cleaned' = FinalDataCleaning(df_filtered)
    /\ trip_success' = [ i \in DOMAIN df_cleaned' |->
                           map_success(df_cleaned'[i].fixed_active_status) ]
    /\ pc' = "metrics"
    /\ UNCHANGED << df_original, widgets, df_filtered, warning, kpi,
                    fly_rate_by_market, df_threshold_calc, threshold, cohort >>

\* lines 114-170
ShowMetrics ==
    /\ pc = "metrics"
    /\ kpi' = Metrics(df_cleaned, trip_success)
    /\ fly_rate_by_market' = FlyRateByMarket(df_cleaned, trip_success)
    /\ pc' = "threshold"
    /\ UNCHANGED << df_original, widgets, df_filtered, df_cleaned, trip_success,
                    warning, df_threshold_calc, threshold, cohort >>

\* lines 177-206
ThresholdCalculator ==
    /\ pc = "threshold"
    /\ \E order \in SortedOrders(df_cleaned) :
         df_threshold_calc' = RunningColumns(df_cleaned, trip_success, order)
    /\ threshold' = ThresholdDisplay(df_threshold_calc', target_fly_rate)
    /\ pc' = "cohorts"
    /\ UNCHANGED << df_original, widgets, df_filtered, df_cleaned, trip_success,
                    warning, kpi, fly_rate_by_market, cohort >>

\* lines 217-221
Cohorts ==
    /\ pc = "cohorts"
    /\ cohort' = CohortColumns(df_cleaned, trip_success, kpi.median_followers2)
    /\ pc' = "done"
    /\ UNCHANGED << df_original, widgets, df_filtered, df_cleaned, trip_success,
                    warning, kpi, fly_rate_by_market, df_threshold_calc, threshold >>

PassOver == pc \in {"done", "stopped"}

\* The user changes one sidebar widget: the script runs again from the top
\* with the other widgets as they were.
ChangeShellFilter ==
    /\ PassOver
    /\ shell_filter' \in ShellFilterOptions
    /\ FreshPass
    /\ UNCHANGED << df_original, selected_markets, selected_date_range,
                    selected_follower_range, target_fly_rate >>

ChangeMarkets ==
    /\ PassOver
    /\ selected_markets' \in SUBSET markets(df_original)
    /\ FreshPass
    /\ UNCHANGED << df_original, shell_filter, selected_date_range,
                    selected_follower_range, target_fly_rate >>

ChangeDateRange ==
    /\ PassOver
    /\ selected_date_range' \in DateRangeOptions(df_original)
    /\ FreshPass
    /\ UNCHANGED << df_original, shell_filter, selected_markets,
                    selected_follower_range, target_fly_rate >>

ChangeFollowerRange ==
    /\ PassOver
    /\ selected_follower_range' \in FollowerRangeOptions(df_original)
    /\ FreshPass
    /\ UNCHANGED << df_original, shell_filter, selected_markets,
                    selected_date_range, target_fly_rate >>

ChangeFilters ==
    \/ ChangeShellFilter
    \/ ChangeMarkets
    \/ ChangeDateRange
    \/ ChangeFollowerRange

\* the user moves the target slider: the script runs again from the top
MoveSlider ==
    /\ PassOver
    /\ target_fly_rate' \in Targets
    /\ FreshPass
    /\ UNCHANGED << df_original, shell_filter, selected_markets,
                    selected_date_range, selected_follower_range >>

RenderPass ==
    \/ ApplyFilters
    \/ EmptyResult
    \/ FinalCleaning
    \/ ShowMetrics
    \/ ThresholdCalculator
    \/ Cohorts

Next == RenderPass \/ ChangeFilters

Spec == Init /\ [][Next]_vars

NextThreshold ==
    \/ ApplyFilters
    \/ FinalCleaning
    \/ ShowMetrics
    \/ ThresholdCalculator
    \/ Cohorts
    \/ MoveSlider

SpecThreshold == InitThreshold /\ [][NextThreshold]_vars

-----------------------------------------------------------------------------
(* The properties.  They are stated from the table and the widgets, not    *)
(* with the operators of the script above.                                 *)

Cleaned == pc \in {"metrics", "threshold", "cohorts", "done"}
ThresholdShown == pc \in {"cohorts", "done"}

\* the label of the row at position k of the sorted frame
LabelAt(k) == df_threshold_calc[k].index

\* successes among the first k rows of the sorted frame
PrefixSuccesses(k) ==
    Cardinality({ j \in 1..k :
        df_original[LabelAt(j)].fixed_active_status \in {"done", "live", "confirmed"} })

PrefixMeets(k, t) == PrefixSuccesses(k) * 100 >= t * k

QualifyingPositions(t) == { k \in 1..Len(df_threshold_calc) : PrefixMeets(k, t) }

FollowersAt(k) == df_original[LabelAt(k)].follower_count

IsDescendingSortOfCleaned ==
    /\ Len(df_threshold_calc) = Cardinality(DOMAIN df_cleaned)
    /\ { LabelAt(k) : k \in 1..Len(df_threshold_calc) } = DOMAIN df_cleaned
    /\ \A k \in 1..(Len(df_threshold_calc) - 1) : FollowersAt(k) >= FollowersAt(k + 1)

AtOrAbove(f) == { i \in DOMAIN df_cleaned : df_cleaned[i].follower_count >= f }

SuccessesAmong(rows) ==
    Cardinality({ i \in rows :
        df_original[i].fixed_active_status \in {"done", "live", "confirmed"} })

\* C2: whenever a threshold F is reported for target T, the records of the
\* cleaned set with follower_count >= F have a success rate >= T, also when
\* several records share a follower count.
C2_SubgroupMeetsTarget ==
    (ThresholdShown /\ threshold.kind = "metric") =>
        LET group == AtOrAbove(threshold.suggested_threshold)
        IN  SuccessesAmong(group) * 100 >= target_fly_rate * Cardinality(group)

FullRatePositions == { k \in 1..Len(df_threshold_calc) : PrefixSuccesses(k) = k }

FullRateFollowers == { FollowersAt(k) : k \in FullRatePositions }

\* C3 as stated: with T = 100 a reported threshold is the highest follower
\* count among the records whose prefix rate is exactly 100%.
C3_HighestAtFullRate ==
    (ThresholdShown /\ target_fly_rate = 100 /\ threshold.kind = "metric") =>
        threshold.suggested_threshold = SetMax(FullRateFollowers)

\* C3 amended: with T = 100 a reported threshold is the lowest follower count
\* among the records whose prefix rate is exactly 100%.
C3_LowestAtFullRate ==
    (ThresholdShown /\ target_fly_rate = 100 /\ threshold.kind = "metric") =>
        /\ FullRateFollowers # {}
        /\ threshold.suggested_threshold = SetMin(FullRateFollowers)

C3_Witness ==
    /\ pc = "done"
    /\ target_fly_rate = 100
    /\ threshold.kind = "metric"
    /\ Cardinality(FullRateFollowers) >= 2
    /\ Len(df_threshold_calc) > Cardinality(FullRatePositions)
    /\ threshold.suggested_threshold = SetMin(FullRateFollowers)

-----------------------------------------------------------------------------
(* The filter engine, stated row by row from the widgets.                  *)

TripTypeOk(r) ==
    \/ shell_filter = "All Trips"
    \/ shell_filter = "Only Shell Trips" /\ r.shell = TRUE
    \/ shell_filter = "Only Non-Shell Trips" /\ r.shell = FALSE

MarketOk(r) == r.market \in selected_markets

DateOk(r) ==
    Len(selected_date_range) = 2 =>
        /\ selected_date_range[1] <= r.published_date
        /\ r.published_date <= selected_date_range[2]

FollowersOk(r) ==
    /\ selected_follower_range[1] <= r.follower_count
    /\ r.follower_count <= selected_follower_range[2]

CleanOk(r) ==
    /\ r.market # "mba"
    /\ r.fixed_active_status \in {"cancelled", "done", "live", "confirmed"}

\* rows that every predicate other than the market selection keeps
KeptWithoutMarkets ==
    { i \in DOMAIN df_original :
        /\ TripTypeOk(df_original[i])
        /\ DateOk(df_original[i])
        /\ FollowersOk(df_original[i]) }

KeptRows ==
    { i \in KeptWithoutMarkets :
        /\ selected_markets # {} => MarketOk(df_original[i])
        /\ CleanOk(df_original[i]) }

NothingComputed ==
    /\ kpi = NotComputed
    /\ DOMAIN fly_rate_by_market = {}
    /\ Len(df_threshold_calc) = 0
    /\ threshold = NotComputed
    /\ DOMAIN cohort = {}
    /\ DOMAIN trip_success = {}

C5_Halts ==
    /\ pc = "stopped" <=> warning = "EmptyResult"
    /\ pc = "stopped" =>
         /\ KeptRows = {}
         /\ DOMAIN df_cleaned = {}
         /\ NothingComputed
         /\ ~ENABLED RenderPass
    /\ Cleaned =>
         /\ KeptRows # {}
         /\ DOMAIN df_cleaned = KeptRows
         /\ warning = "none"
    /\ pc \in {"metrics", "threshold", "cohorts"} => ENABLED RenderPass
    /\ pc = "done" =>
         /\ kpi.kind = "kpi"
         /\ DOMAIN fly_rate_by_market # {}
         /\ threshold.kind \in {"metric", "warning"}
         /\ DOMAIN cohort = KeptRows

C5_NextPassIsFresh ==
    (pc = "stopped" /\ pc' # "stopped") =>
        /\ pc' = "filter"
        /\ warning' = "none"
        /\ DOMAIN df_filtered' = {}
        /\ DOMAIN df_cleaned' = {}
        /\ NothingComputed'

\* C5: when nothing is left after the filters and the two cleaning rules, the
\* pass warns EmptyResult and halts before any KPI, market aggregation,
\* threshold or cohort is computed; when something is left there is no such
\* warning and those stages run; and the pass after an EmptyResult starts
\* afresh, so its outcome depends on its own filter configuration only.
C5_EmptyResultHalts == [] C5_Halts /\ [][C5_NextPassIsFresh]_vars

\* the filters emptied a table that the default configuration does not empty
C5_Witness ==
    /\ pc = "stopped"
    /\ warning = "EmptyResult"
    /\ \E i \in DOMAIN df_original : CleanOk(df_original[i])

\* C6: for every filter configuration, every record that reaches aggregation
\* has market # mba and a status among cancelled, done, live, confirmed, and
\* has exactly one trip_success: Successful iff its status is done, live or
\* confirmed, Cancelled iff it is cancelled.
C6_CleanedRecords ==
    Cleaned =>
        /\ DOMAIN trip_success = DOMAIN df_cleaned
        /\ \A i \in DOMAIN df_cleaned :
             /\ df_cleaned[i] = df_original[i]
             /\ df_cleaned[i].market # "mba"
             /\ df_cleaned[i].fixed_active_status \in {"cancelled", "done", "live", "confirmed"}
             /\ trip_success[i] \in {"Successful", "Cancelled"}
             /\ trip_success[i] = "Successful" <=>
                  df_cleaned[i].fixed_active_status \in {"done", "live", "confirmed"}
             /\ trip_success[i] = "Cancelled" <=>
                  df_cleaned[i].fixed_active_status = "cancelled"

\* mba is selected and an mba row passes the user filters; a cancelled trip
\* reaches aggregation
C6_Witness ==
    /\ pc = "done"
    /\ "mba" \in selected_markets
    /\ \E i \in DOMAIN df_filtered : df_filtered[i].market = "mba"
    /\ \E i \in DOMAIN df_cleaned : trip_success[i] = "Cancelled"

\* C7: with an empty market selection no market predicate is applied: records
\* are kept or dropped by trip type, date range, follower range and the two
\* cleaning rules only, so the empty selection excludes nothing by itself.
C7_EmptySelectionIsNoFilter ==
    (selected_markets = {} /\ pc # "filter") =>
        /\ DOMAIN df_filtered = KeptWithoutMarkets
        /\ pc # "clean" =>
             DOMAIN df_cleaned = { i \in KeptWithoutMarkets : CleanOk(df_original[i]) }

C7_Witness ==
    /\ selected_markets = {}
    /\ pc = "done"
    /\ DOMAIN df_cleaned # {}
    /\ DOMAIN df_filtered # DOMAIN df_original

\* C8: the set the filter engine produces is a subset of the input set, and
\* applying the same configuration to that output returns it unchanged.
C8_SubsetAndIdempotent ==
    pc \notin {"filter", "clean"} =>
        /\ DOMAIN df_cleaned \subseteq DOMAIN df_original
        /\ \A i \in DOMAIN df_cleaned : df_cleaned[i] = df_original[i]
        /\ FinalDataCleaning(
             ApplyAllFilters(df_cleaned, shell_filter, selected_markets,
                             selected_date_range, selected_follower_range)) = df_cleaned

\* the user filters dropped a row and another row is left
C8_Witness ==
    /\ Cleaned
    /\ DOMAIN df_filtered # DOMAIN df_original
    /\ DOMAIN df_cleaned # {}
    /\ FinalDataCleaning(
         ApplyAllFilters(df_cleaned, shell_filter, selected_markets,
                         selected_date_range, selected_follower_range)) = df_cleaned

\* the value at 0-based position p of the ascending follower counts of rows
ValueAt(rows, p) ==
    CHOOSE v \in { df_original[i].follower_count : i \in rows } :
        /\ Cardinality({ i \in rows : df_original[i].follower_count < v }) <= p
        /\ Cardinality({ i \in rows : df_original[i].follower_count <= v }) > p

\* twice the median follower count of rows
TwiceMedian(rows) ==
    ValueAt(rows, (Cardinality(rows) - 1) \div 2) + ValueAt(rows, Cardinality(rows) \div 2)

LevelOf(i, rows) ==
    IF 2 * df_original[i].follower_count >= TwiceMedian(rows)
    THEN "High Followers" ELSE "Low Followers"

\* C9: in each pass every record of the working set is High Followers iff its
\* follower_count >= the median of the currently filtered set, else Low
\* Followers, and its cohort joins that label with its trip_success; the
\* median is that of this pass's set, not of the full dataset.
C9_CohortByCurrentMedian ==
    pc = "done" =>
        /\ kpi.median_followers2 = TwiceMedian(KeptRows)
        /\ DOMAIN cohort = KeptRows
        /\ \A i \in KeptRows :
             /\ cohort[i].follower_level = LevelOf(i, KeptRows)
             /\ cohort[i].cohort = << LevelOf(i, KeptRows), trip_success[i] >>

CleanRowsOfTable == { i \in DOMAIN df_original : CleanOk(df_original[i]) }

\* a record that is High under this configuration and Low under the default
\* one, whose median is that of every clean row of the table
C9_Witness ==
    /\ pc = "done"
    /\ \E i \in KeptRows :
         /\ cohort[i].follower_level = "High Followers"
         /\ LevelOf(i, CleanRowsOfTable) = "Low Followers"

\* what the calculator displays for target t on the sorted frame of this pass
DisplayFor(t) == ThresholdDisplay(df_threshold_calc, t)

\* C10: on a fixed record set in a fixed sort order, for targets T1 <= T2: if
\* a threshold is reported for T2 then one is reported for T1 and it is not
\* above the one for T2.  (Stated of the sorted frame the calculator has just
\* left, which the rest of the pass does not change.)
C10_MonotoneInTarget ==
    pc = "cohorts" =>
        \A display \in { [ t \in Targets |-> DisplayFor(t) ] } :
            /\ threshold = display[target_fly_rate]
            /\ \A t1, t2 \in Targets :
                 (t1 <= t2 /\ display[t2].kind = "metric") =>
                     /\ display[t1].kind = "metric"
                     /\ display[t1].suggested_threshold <= display[t2].suggested_threshold

\* raising the target raises the threshold, and raising it further loses it
C10_Witness ==
    /\ pc = "done"
    /\ \E t1, t2, t3 \in Targets :
         /\ t1 < t2 /\ t2 < t3
         /\ DisplayFor(t1).kind = "metric"
         /\ DisplayFor(t2).kind = "metric"
         /\ DisplayFor(t1).suggested_threshold < DisplayFor(t2).suggested_threshold
         /\ DisplayFor(t3).kind = "warning"

=============================================================================
